---- MODULE Spec2Model ----
(***************************************************************************)
(* Model of src/error/GraphQLError.js: the GraphQLError constructor, the   *)
(* property descriptors it defines on the new object, and the host's       *)
(* JSON.stringify applied to the constructed error.                        *)
(*                                                                         *)
(* JavaScript values are tagged records, so that `undefined`, `null`, an   *)
(* empty array and a non-empty array are four different values and the     *)
(* truthiness tests of the code (`!x`, `x && y`, `x || y`) are computed    *)
(* as the language computes them.                                          *)
(***************************************************************************)
EXTENDS Integers, Sequences, FiniteSets, TLC

(***************************************************************************)
(* Bounds of the explored input space.                                     *)
(***************************************************************************)
MaxNodes == 3
MaxPositions == 2

(***************************************************************************)
(* JavaScript values.                                                      *)
(***************************************************************************)
Undefined == [type |-> "undefined"]
Null == [type |-> "null"]
Arr(s) == [type |-> "array", items |-> s]
Str(s) == [type |-> "string", val |-> s]
Obj(p) == [type |-> "object", props |-> p]

\* ToBoolean: undefined, null and "" are falsy; arrays (also empty ones) and
\* objects are truthy.
Truthy(v) ==
  CASE v.type = "undefined" -> FALSE
    [] v.type = "null" -> FALSE
    [] v.type = "string" -> v.val # ""
    [] OTHER -> TRUE

\* Array.isArray
IsArray(v) == v.type = "array"

\* a || b  (value-returning, as in the language)
JsOr(a, b) == IF Truthy(a) THEN a ELSE b

(***************************************************************************)
(* Source documents, AST nodes, wrapped errors: the inputs.                *)
(***************************************************************************)
MkSource(n, b) == [type |-> "Source", name |-> n, body |-> b]
S1 == MkSource("S1", <<"\n", "a", "b">>)
S2 == MkSource("S2", <<"a", "b", "\n">>)
Sources == {S1, S2}

MkLoc(src, st) == [type |-> "Location", start |-> st, source |-> src]
MkNode(k, l) == [type |-> "node", kind |-> k, loc |-> l]
NoLocNode == MkNode("Field", Undefined)
NodeA == MkNode("Field", MkLoc(S1, 1))
NodeB == MkNode("Name", MkLoc(S2, 2))
\* entries a caller can put in a node list; Null is a missing entry
NodeEntries == {Null, NoLocNode, NodeA, NodeB}

Offsets == {1, 2}

MkError(st, ext) == [type |-> "Error", stack |-> st, extensions |-> ext]
CauseTrace == Str("Error: boom at resolver")
CauseExtensions == Obj(<< <<"code", "X">> >>)
OwnExtensions == Obj(<< <<"code", "Y">> >>)
EmptyExtensions == Obj(<< >>)

SeqsUpTo(S, n) == UNION {[1..k -> S] : k \in 0..n}

NodesArgs ==
  {Undefined, Null} \cup (NodeEntries \ {Null})
    \cup {Arr(s) : s \in SeqsUpTo(NodeEntries, MaxNodes)}
SourceArgs == {Undefined} \cup Sources
PositionsArgs == {Undefined, Null} \cup {Arr(s) : s \in SeqsUpTo(Offsets, MaxPositions)}
PathArgs == {Undefined, Arr(<< >>), Arr(<<"hero", "name">>)}
OriginalErrorArgs ==
  {Undefined, MkError(Str(""), Undefined)}
    \cup {MkError(st, ext) : st \in {Undefined, CauseTrace},
                             ext \in {Undefined, CauseExtensions}}
ExtensionsArgs == {Undefined, EmptyExtensions, OwnExtensions}

Args ==
  [message : {Str("Bad input")}, nodes : NodesArgs, source : SourceArgs,
   positions : PositionsArgs, path : PathArgs,
   originalError : OriginalErrorArgs, extensions : ExtensionsArgs]

(***************************************************************************)
(* getLocation(source, position) of ../language/location: the 1-indexed    *)
(* line and column of a character offset in the document body.             *)
(***************************************************************************)
LineBreaksBefore(body, position) ==
  {i \in 0..(Len(body) - 1) : body[i + 1] = "\n" /\ i < position}

MaxOf(S) == CHOOSE m \in S : \A x \in S : x <= m

getLocation(source, position) ==
  LET brk == LineBreaksBefore(source.body, position)
  IN [line |-> 1 + Cardinality(brk),
      column |-> IF brk = {} THEN position + 1
                 ELSE position + 1 - (MaxOf(brk) + 1)]

(***************************************************************************)
(* The constructor, block by block.                                        *)
(***************************************************************************)

\* variant: an empty array is kept as the node list
_nodesKeepEmpty(nodes) ==
  IF IsArray(nodes) THEN nodes
  ELSE (IF Truthy(nodes) THEN Arr(<<nodes>>) ELSE Undefined)

\* Compute list of blame nodes.
_nodes(nodes) ==
  IF IsArray(nodes)
  THEN (IF Len(nodes.items) # 0 THEN nodes ELSE Undefined)
  ELSE (IF Truthy(nodes) THEN Arr(<<nodes>>) ELSE Undefined)

\* array[0]: undefined when the array has no element
First(array) ==
  IF Len(array.items) = 0 THEN Undefined ELSE array.items[1]

\* let _source = source; if (!_source && _nodes) { node = _nodes[0]; ... }
_source(source, nodes) ==
  IF ~Truthy(source) /\ Truthy(_nodes(nodes))
  THEN LET node == First(_nodes(nodes))
       IN IF ~Truthy(node) THEN node
          ELSE IF ~Truthy(node.loc) THEN node.loc
          ELSE node.loc.source
  ELSE source

\* reading node.loc raises a TypeError when the entry is null or undefined
ReduceThrows(list) ==
  \E i \in 1..Len(list) : list[i].type \in {"null", "undefined"}

\* variant: list.unshift instead of list.push
RECURSIVE ReduceStartsUnshift(_)
ReduceStartsUnshift(list) ==
  IF list = << >> THEN << >>
  ELSE IF Truthy(Head(list).loc)
       THEN ReduceStartsUnshift(Tail(list)) \o <<Head(list).loc.start>>
       ELSE ReduceStartsUnshift(Tail(list))

\* _nodes.reduce((list, node) => { if (node.loc) list.push(f(node)) ... }, [])
RECURSIVE ReduceStarts(_)
ReduceStarts(list) ==
  IF list = << >> THEN << >>
  ELSE IF Truthy(Head(list).loc)
       THEN <<Head(list).loc.start>> \o ReduceStarts(Tail(list))
       ELSE ReduceStarts(Tail(list))

RECURSIVE ReduceLocations(_)
ReduceLocations(list) ==
  IF list = << >> THEN << >>
  ELSE IF Truthy(Head(list).loc)
       THEN <<getLocation(Head(list).loc.source, Head(list).loc.start)>>
              \o ReduceLocations(Tail(list))
       ELSE ReduceLocations(Tail(list))

\* let _positions = positions; derived from the nodes when falsy; an empty
\* array becomes undefined
_positions(positions, nodes) ==
  LET derived == IF ~Truthy(positions) /\ Truthy(_nodes(nodes))
                 THEN Arr(ReduceStarts(_nodes(nodes).items))
                 ELSE positions
  IN IF Truthy(derived) /\ Len(derived.items) = 0 THEN Undefined ELSE derived

\* variant: every position resolved at the first offset
_locationsStalePosition(positions, source, nodes) ==
  IF Truthy(positions) /\ Truthy(source)
  THEN Arr([i \in 1..Len(positions.items) |->
              getLocation(source, positions.items[1])])
  ELSE IF Truthy(_nodes(nodes))
       THEN Arr(ReduceLocations(_nodes(nodes).items))
       ELSE Undefined

\* let _locations; if (positions && source) ... else if (_nodes) ...
_locations(positions, source, nodes) ==
  IF Truthy(positions) /\ Truthy(source)
  THEN Arr([i \in 1..Len(positions.items) |->
              getLocation(source, positions.items[i])])
  ELSE IF Truthy(_nodes(nodes))
       THEN Arr(ReduceLocations(_nodes(nodes).items))
       ELSE Undefined

\* the constructor raises when one of the two reductions over _nodes runs
\* and meets a null entry
ConstructorThrows(a) ==
  /\ Truthy(_nodes(a.nodes))
  /\ ReduceThrows(_nodes(a.nodes).items)
  /\ \/ ~Truthy(a.positions)
     \/ ~(Truthy(a.positions) /\ Truthy(a.source))

\* variant: the cause's extensions take precedence
extensionsValueCauseFirst(extensions, originalError) ==
  IF ~Truthy(originalError) THEN extensions
  ELSE IF Truthy(originalError.extensions) THEN originalError.extensions
  ELSE extensions

\* extensions || (originalError && originalError.extensions)
extensionsValue(extensions, originalError) ==
  IF Truthy(extensions) THEN extensions
  ELSE IF ~Truthy(originalError) THEN originalError
  ELSE originalError.extensions

\* variant: the cause's stack is never looked at
AdoptsStackNever(originalError) == FALSE

\* Include (non-enumerable) stack trace.
AdoptsStack(originalError) ==
  IF Truthy(originalError) THEN Truthy(originalError.stack) ELSE FALSE

CapturedByHost == Str("GraphQLError: captured by Error.captureStackTrace")
CapturedByError == Str("Error: captured by Error().stack")

stackValue(originalError, h) ==
  IF AdoptsStack(originalError) THEN originalError.stack
  ELSE IF h.captureStackTrace THEN CapturedByHost
  ELSE CapturedByError

\* a property descriptor; `enumerable` defaults to false
Prop(v, e) == [value |-> v, enumerable |-> e, own |-> TRUE]
NoProp == [value |-> Undefined, enumerable |-> FALSE, own |-> FALSE]

PropertyNames ==
  <<"message", "locations", "path", "nodes", "source", "positions",
    "originalError", "extensions", "stack">>

\* variant: extensions defined enumerable as well
EnumerableNamesWithExtensions == {"message", "locations", "path", "extensions"}

\* the properties defined with enumerable: true
EnumerableNames == {"message", "locations", "path"}

\* Object.defineProperties(this, {...}) followed by the stack property
Properties(a, h) ==
  [message |-> Prop(a.message, "message" \in EnumerableNames),
   locations |-> Prop(JsOr(_locations(a.positions, a.source, a.nodes), Undefined),
                      "locations" \in EnumerableNames),
   path |-> Prop(JsOr(a.path, Undefined), "path" \in EnumerableNames),
   nodes |-> Prop(JsOr(_nodes(a.nodes), Undefined), "nodes" \in EnumerableNames),
   source |-> Prop(JsOr(_source(a.source, a.nodes), Undefined),
                   "source" \in EnumerableNames),
   positions |-> Prop(JsOr(_positions(a.positions, a.nodes), Undefined),
                      "positions" \in EnumerableNames),
   originalError |-> Prop(a.originalError, "originalError" \in EnumerableNames),
   extensions |-> Prop(extensionsValue(a.extensions, a.originalError),
                       "extensions" \in EnumerableNames),
   stack |-> Prop(stackValue(a.originalError, h), "stack" \in EnumerableNames)]

EmptyObject == [n \in {PropertyNames[i] : i \in 1..Len(PropertyNames)} |-> NoProp]

(***************************************************************************)
(* JSON.stringify(error): the own enumerable properties whose value is not *)
(* undefined, in definition order.                                         *)
(***************************************************************************)
RECURSIVE SerializedProps(_, _)
SerializedProps(o, names) ==
  IF names = << >> THEN << >>
  ELSE LET p == o[Head(names)]
       IN IF p.own /\ p.enumerable /\ p.value.type # "undefined"
          THEN << <<Head(names), p.value>> >> \o SerializedProps(o, Tail(names))
          ELSE SerializedProps(o, Tail(names))

(***************************************************************************)
(* State machine: one construction per behaviour, then serialization.      *)
(***************************************************************************)
VARIABLES
  args,      \* the constructor's arguments
  host,      \* what the host environment offers
  pc,        \* "new", "constructed", "threw", "serialized"
  this,      \* the properties of the object under construction
  captures,  \* number of fresh stack captures made
  json       \* result of JSON.stringify(this)

vars == <<args, host, pc, this, captures, json>>

Init ==
  /\ args \in Args
  /\ host \in [captureStackTrace : BOOLEAN]
  /\ pc = "new"
  /\ this = EmptyObject
  /\ captures = 0
  /\ json = Undefined

GraphQLError ==
  /\ pc = "new"
  /\ IF ConstructorThrows(args)
     THEN /\ pc' = "threw"
          /\ UNCHANGED <<this, captures>>
     ELSE /\ pc' = "constructed"
          /\ this' = Properties(args, host)
          /\ captures' = IF AdoptsStack(args.originalError) THEN captures
                         ELSE captures + 1
  /\ UNCHANGED <<args, host, json>>

JSONstringify ==
  /\ pc = "constructed"
  /\ json' = Obj(SerializedProps(this, PropertyNames))
  /\ pc' = "serialized"
  /\ UNCHANGED <<args, host, this, captures>>

Next == GraphQLError \/ JSONstringify

Spec == Init /\ [][Next]_vars

(***************************************************************************)
(* Vocabulary of the properties.                                           *)
(***************************************************************************)
Constructed == pc \in {"constructed", "serialized"}

\* an argument or field that is not there
Absent(v) == v.type \in {"undefined", "null"}

\* the elements of a field: none when the field is absent
Elems(v) == IF IsArray(v) THEN v.items ELSE << >>

\* the nodes a caller supplied, a single node counting as a list of one
SuppliedNodes(nodes) ==
  IF IsArray(nodes) THEN nodes.items
  ELSE IF nodes.type = "node" THEN <<nodes>>
  ELSE << >>

HasSpan(n) == IF n.type = "node" THEN n.loc.type = "Location" ELSE FALSE

SpanNodes(list) == SelectSeq(list, HasSpan)

SpanStarts(list) == [i \in 1..Len(SpanNodes(list)) |-> SpanNodes(list)[i].loc.start]

Field(f) == this[f].value

JsonKeys == {json.props[i][1] : i \in 1..Len(json.props)}

\* C1: in every constructed error none of nodes, positions and locations is
\* an empty sequence; constructing with nodes=[], a source S and positions=[]
\* leaves nodes, positions and locations absent and source = S.
SequencesNeverEmpty ==
  Constructed =>
    /\ \A f \in {"nodes", "positions", "locations"} : Field(f) # Arr(<< >>)
    /\ (args.nodes = Arr(<< >>) /\ ~Absent(args.source)
          /\ args.positions = Arr(<< >>))
       => /\ Absent(Field("nodes"))
          /\ Absent(Field("positions"))
          /\ Absent(Field("locations"))
          /\ Field("source") = args.source

\* C2: source is the explicit source when given; otherwise the document of
\* the first node, in node order, that has a span; absent when there is none.
SourceOfFirstSpannedNode ==
  Constructed =>
    Field("source") =
      IF ~Absent(args.source) THEN args.source
      ELSE IF SpanNodes(SuppliedNodes(args.nodes)) = << >> THEN Undefined
      ELSE SpanNodes(SuppliedNodes(args.nodes))[1].loc.source

\* C3: positions is the explicit argument when it is given and non-empty;
\* in every other case with a node list present it is the sequence of span
\* start offsets of the span-carrying nodes, absent when that is empty.
PositionsExplicitElseDerived ==
  Constructed =>
    IF IsArray(args.positions) /\ Elems(args.positions) # << >>
    THEN Field("positions") = args.positions
    ELSE SuppliedNodes(args.nodes) # << >> =>
           Field("positions") =
             IF SpanStarts(SuppliedNodes(args.nodes)) = << >> THEN Undefined
             ELSE Arr(SpanStarts(SuppliedNodes(args.nodes)))

\* C4: when a positions sequence and an explicit source are both supplied,
\* locations has as many elements as the result's positions (an absent
\* field has none) and locations[i] is the resolver applied to the supplied
\* source and positions[i], whatever nodes were supplied.
LocationsFollowExplicitPositions ==
  (Constructed /\ IsArray(args.positions) /\ ~Absent(args.source)) =>
    /\ Len(Elems(Field("locations"))) = Len(Elems(Field("positions")))
    /\ Len(Elems(Field("locations"))) = Len(args.positions.items)
    /\ \A i \in 1..Len(Elems(Field("locations"))) :
         Elems(Field("locations"))[i] =
           getLocation(args.source, Elems(Field("positions"))[i])

LocationsFollowExplicitPositionsWitness ==
  /\ Constructed
  /\ args.positions = Arr(<<2, 1>>)
  /\ args.source = S2
  /\ args.nodes = Arr(<<NodeA, NoLocNode>>)
  /\ Field("locations") =
       Arr(<<[line |-> 1, column |-> 3], [line |-> 1, column |-> 2]>>)

\* C5: the serialization holds exactly message, plus locations when it is
\* not absent, plus path when it is not absent; never nodes, source,
\* positions, originalError, extensions or stack.
SerializationFieldsExact ==
  pc = "serialized" =>
    JsonKeys = {"message"}
                 \cup (IF Absent(Field("locations")) THEN {} ELSE {"locations"})
                 \cup (IF Absent(Field("path")) THEN {} ELSE {"path"})

SerializationFieldsExactWitness ==
  /\ pc = "serialized"
  /\ JsonKeys = {"message", "locations", "path"}
  /\ ~Absent(Field("nodes"))
  /\ ~Absent(Field("source"))
  /\ ~Absent(Field("positions"))
  /\ ~Absent(Field("originalError"))
  /\ ~Absent(Field("extensions"))
  /\ ~Absent(Field("stack"))

\* C6: construction never raises, whatever the arguments.
ConstructionNeverRaises == pc # "threw"

\* C7: extensions is the explicit argument when given, else the cause's
\* extensions when a cause is supplied and carries some, else absent.
ExtensionsFallback ==
  Constructed =>
    IF ~Absent(args.extensions) THEN Field("extensions") = args.extensions
    ELSE IF Absent(args.originalError) THEN Absent(Field("extensions"))
    ELSE IF Absent(args.originalError.extensions) THEN Absent(Field("extensions"))
    ELSE Field("extensions") = args.originalError.extensions

ExtensionsFallbackWitness ==
  /\ Constructed
  /\ Absent(args.extensions)
  /\ ~Absent(args.originalError)
  /\ Field("extensions") = CauseExtensions

\* C8: with nodes given as an empty sequence the result is the one obtained
\* with nodes not given: nodes absent, and source, positions, locations,
\* path, extensions and originalError equal.
EmptyNodesAsNotGiven ==
  (Constructed /\ args.nodes = Arr(<< >>)) =>
    LET other == Properties([args EXCEPT !.nodes = Undefined], host)
    IN /\ ~ConstructorThrows([args EXCEPT !.nodes = Undefined])
       /\ Absent(Field("nodes"))
       /\ Absent(other.nodes.value)
       /\ \A f \in {"source", "positions", "locations", "path", "extensions",
                    "originalError"} : Field(f) = other[f].value

EmptyNodesAsNotGivenWitness ==
  /\ Constructed
  /\ args.nodes = Arr(<< >>)
  /\ args.positions = Arr(<<1, 2>>)
  /\ args.source = S1
  /\ Field("nodes") = Undefined
  /\ Field("locations") =
       Arr(<<[line |-> 2, column |-> 1], [line |-> 2, column |-> 2]>>)

\* C9: when the cause carries a trace the result's stack is that trace and
\* no capture is made; a fresh capture is made only when there is no cause
\* or the cause has no trace.
CauseHasTrace ==
  IF Absent(args.originalError) THEN FALSE
  ELSE IF args.originalError.stack.type = "string"
       THEN args.originalError.stack.val # ""
       ELSE FALSE

TraceAdoptedFromCause ==
  Constructed =>
    /\ CauseHasTrace =>
         (Field("stack") = args.originalError.stack /\ captures = 0)
    /\ captures > 0 => ~CauseHasTrace
    /\ Field("stack") \in {CapturedByHost, CapturedByError} => ~CauseHasTrace

TraceAdoptedFromCauseWitness ==
  /\ Constructed
  /\ CauseHasTrace
  /\ Field("stack") = CauseTrace
  /\ captures = 0

\* C10: with neither positions nor source supplied and a node list given,
\* nodes holds every supplied node in order, positions and locations have one
\* element per span-carrying node, positions[i] is that node's start offset
\* and locations[i] is the resolver applied to that node's own document and
\* that offset.
NodeDerivedFieldsAligned ==
  (Constructed /\ Absent(args.positions) /\ Absent(args.source)
     /\ SuppliedNodes(args.nodes) # << >>) =>
    LET spans == SpanNodes(SuppliedNodes(args.nodes))
    IN /\ Elems(Field("nodes")) = SuppliedNodes(args.nodes)
       /\ Len(Elems(Field("positions"))) = Len(spans)
       /\ Len(Elems(Field("locations"))) = Len(spans)
       /\ \A i \in 1..Len(spans) :
            /\ Elems(Field("positions"))[i] = spans[i].loc.start
            /\ Elems(Field("locations"))[i] =
                 getLocation(spans[i].loc.source, spans[i].loc.start)

NodeDerivedFieldsAlignedWitness ==
  /\ Constructed
  /\ Absent(args.positions)
  /\ Absent(args.source)
  /\ args.nodes = Arr(<<NodeB, NoLocNode, NodeA>>)
  /\ Field("nodes") = args.nodes
  /\ Field("positions") = Arr(<<2, 1>>)
  /\ Field("locations") =
       Arr(<<[line |-> 1, column |-> 3], [line |-> 2, column |-> 1]>>)

====
